---- MODULE Spec2Model ----
(***************************************************************************)
(* A model of flask_swagger: the Sphinx-style docstring parser, the path   *)
(* rewriting helpers, APIEndpoint, APIBuilder and make_resources.          *)
(*                                                                         *)
(* Python strings that the code inspects character by character are        *)
(* modelled as sequences of one-character strings, so that regular         *)
(* expression matching, slicing, split, join and strip are computed and    *)
(* not assumed.  Strings the code only passes through (HTTP method names,  *)
(* endpoint identifiers, version strings) are TLA+ strings.                *)
(***************************************************************************)
EXTENDS Integers, Sequences, FiniteSets, TLC

VARIABLES app, lines, path, prefix, base_path, ret

vars == <<app, lines, path, prefix, base_path, ret>>

(***************************************************************************)
(* Bounds of the model.                                                    *)
(***************************************************************************)
MaxLineLen == 6
MaxDocLines == 3
MaxTailLen == 5
MaxPrefixLen == 3
MaxPathLen == 6
MaxParamLines == 3
MaxNotesLines == 3
MaxRoutes == 3

(***************************************************************************)
(* Generic sequence helpers.                                               *)
(***************************************************************************)
\* All sequences over S of length at most n.
SeqsUpTo(S, n) == UNION {[1..k -> S] : k \in 0..n}

\* The empty Python string / list.
Empty == <<>>

(***************************************************************************)
(* Python str primitives used by the code.                                 *)
(***************************************************************************)
\* s.startswith(p)
startswith(s, p) == Len(p) <= Len(s) /\ SubSeq(s, 1, Len(p)) = p

\* s.endswith(p)
endswith(s, p) == Len(p) <= Len(s) /\ SubSeq(s, Len(s) - Len(p) + 1, Len(s)) = p

\* sep.join(parts)
RECURSIVE join(_, _)
join(sep, parts) ==
    IF Len(parts) = 0 THEN Empty
    ELSE IF Len(parts) = 1 THEN parts[1]
    ELSE parts[1] \o sep \o join(sep, Tail(parts))

\* ---------------------------------------------------------------------------
\* parse_doc: re.match(r'^(:\w+) ([^:]*)(?:: ?)?(.*)$', line)
\* ---------------------------------------------------------------------------
\* \w of Python's re module (no flags): [a-zA-Z0-9_]
WordChars ==
    {"a", "b", "c", "d", "e", "f", "g", "h", "i", "j", "k", "l", "m",
     "n", "o", "p", "q", "r", "s", "t", "u", "v", "w", "x", "y", "z",
     "A", "B", "C", "D", "E", "F", "G", "H", "I", "J", "K", "L", "M",
     "N", "O", "P", "Q", "R", "S", "T", "U", "V", "W", "X", "Y", "Z",
     "0", "1", "2", "3", "4", "5", "6", "7", "8", "9", "_"}

\* Greedy \w* from position i: the index just past the run of word characters.
RECURSIVE SkipWord(_, _)
SkipWord(s, i) ==
    IF i <= Len(s) /\ s[i] \in WordChars THEN SkipWord(s, i + 1) ELSE i

\* Greedy [^:]* from position i: the index just past the run of non-colons.
RECURSIVE SkipNotColon(_, _)
SkipNotColon(s, i) ==
    IF i <= Len(s) /\ s[i] # ":" THEN SkipNotColon(s, i + 1) ELSE i

NoMatch == [matched |-> FALSE]

\* The match object of the regular expression on one line (lines hold no
\* line break: they come from splitlines()).  The key is ':' and a greedy
\* word run that must be followed by one space; the name is the greedy run
\* of non-colons; an optional ':' and optional space are consumed; the value
\* is the rest of the line.  No backtracking can change the outcome: a
\* shorter word run is followed by a word character, not a space.
re_match(line) ==
    IF Len(line) = 0 \/ line[1] # ":" THEN NoMatch
    ELSE LET k == SkipWord(line, 2)
         IN  IF k = 2 \/ k > Len(line) \/ line[k] # " " THEN NoMatch
             ELSE LET n == SkipNotColon(line, k + 1)
                      v == IF n > Len(line) THEN n
                           ELSE IF n + 1 <= Len(line) /\ line[n + 1] = " "
                                THEN n + 2 ELSE n + 1
                  IN  [matched |-> TRUE,
                       key |-> SubSeq(line, 1, k - 1),
                       name |-> SubSeq(line, k + 1, n - 1),
                       value |-> SubSeq(line, v, Len(line))]

\* The empty dict.
EmptyDoc == [k \in {} |-> Empty]

\* doc.get(key, [])
doc_get(doc, key) == IF key \in DOMAIN doc THEN doc[key] ELSE Empty

\* A plausible slip: the list of a key is reset on every line.
doc_setdefault_reset(doc, key) ==
    [k \in (DOMAIN doc) \cup {key} |-> IF k = key THEN Empty ELSE doc[k]]

\* if key not in doc: doc[key] = []
doc_setdefault(doc, key) ==
    IF key \in DOMAIN doc THEN doc
    ELSE [k \in (DOMAIN doc) \cup {key} |-> IF k = key THEN Empty ELSE doc[k]]

\* The body of parse_doc's loop from line i on.
RECURSIVE parse_doc_from(_, _, _)
parse_doc_from(ls, i, doc) ==
    IF i > Len(ls) THEN doc
    ELSE LET m == re_match(ls[i])
         IN  IF ~m.matched THEN parse_doc_from(ls, i + 1, doc)
             ELSE LET d == doc_setdefault(doc, m.key)
                  IN  parse_doc_from(ls, i + 1,
                          [d EXCEPT ![m.key] =
                              Append(@, [name |-> m.name, value |-> m.value])])

parse_doc(ls) == parse_doc_from(ls, 1, EmptyDoc)

(***************************************************************************)
(* Inputs of the parser specification.                                     *)
(***************************************************************************)
\* Characters of the free-form lines: the colon, the space, a word
\* character and the tab, which is none of them.
LineChars == {":", " ", "a", "\t"}

\* Lines built from directive keys, names and values, for documents of
\* several lines.
DirectiveKeys == {<<":", "a">>, <<":", "b">>}
DirectiveNames == {Empty, <<"x">>, <<"y">>}
DirectiveTails == {Empty, <<":", " ", "v">>, <<":", "\t", "v">>}
DirectiveLines ==
    {k \o <<" ">> \o n \o t :
        k \in DirectiveKeys, n \in DirectiveNames, t \in DirectiveTails}
    \cup {<<"x">>, <<":", "a">>}

EmptyApp == [url_map |-> Empty, view_functions |-> EmptyDoc]
NoCall == [op |-> "none"]

InitParse ==
    /\ lines \in {<<l>> : l \in SeqsUpTo(LineChars, MaxLineLen)}
                 \cup SeqsUpTo(DirectiveLines, MaxDocLines)
    /\ app = EmptyApp
    /\ path = Empty
    /\ prefix = Empty
    /\ base_path = Empty
    /\ ret = NoCall

\* parse_doc(lines)
CallParseDoc ==
    /\ ret' = [op |-> "parse_doc", val |-> parse_doc(lines)]
    /\ UNCHANGED <<app, lines, path, prefix, base_path>>

NextParse == CallParseDoc

SpecParse == InitParse /\ [][NextParse]_vars

\* ---------------------------------------------------------------------------
\* Claim formulas of the parser.
\* ---------------------------------------------------------------------------
\* The grammar, stated by positions: the line is ':' , one or more word
\* characters, one space, then the rest.
GrammarKeyEnd(line) ==
    {k \in 2..Len(line) - 1 :
        /\ line[1] = ":"
        /\ \A j \in 2..k : line[j] \in WordChars
        /\ line[k + 1] = " "}

GrammarMatches(line) == GrammarKeyEnd(line) # {}

GrammarKey(line) == SubSeq(line, 1, CHOOSE k \in GrammarKeyEnd(line) : TRUE)

\* The text after the key and its space.
GrammarRest(line) ==
    SubSeq(line, (CHOOSE k \in GrammarKeyEnd(line) : TRUE) + 2, Len(line))

\* name: the rest up to its first colon; value: what follows that colon and
\* one optional character of seps ('' when the rest holds no colon).
GrammarRecordSep(line, seps) ==
    LET rest == GrammarRest(line)
        colons == {i \in 1..Len(rest) : rest[i] = ":"}
    IN  IF colons = {} THEN [name |-> rest, value |-> Empty]
        ELSE LET c == CHOOSE i \in colons : \A j \in colons : i <= j
                 after == SubSeq(rest, c + 1, Len(rest))
             IN  [name |-> SubSeq(rest, 1, c - 1),
                  value |-> IF Len(after) > 0 /\ after[1] \in seps
                            THEN Tail(after) ELSE after]

\* The record of a line under the grammar with ': ?', an optional space.
GrammarRecord(line) == GrammarRecordSep(line, {" "})

\* The characters of \s (the vertical tab, which has no escape here, aside).
StatedSeparators == {" ", "\t", "\n", "\r", "\f"}

\* The indices of the lines that match and carry the key.
LinesOfKey(ls, key) ==
    {i \in 1..Len(ls) : GrammarMatches(ls[i]) /\ GrammarKey(ls[i]) = key}

\* parse_doc has returned a mapping whose keys are exactly the keys of the
\* matching lines and whose value for a key is the sequence of the records
\* of the matching lines with that key, one per line, in line order, the
\* optional character after the colon being one of seps; a list with no
\* directive-prefixed line gives the empty mapping and a line with a key and
\* a name but no value gives value = ''.
ParseDocGroups(seps) ==
    ret.op = "parse_doc" =>
        LET doc == ret.val
            matching == {i \in 1..Len(lines) : GrammarMatches(lines[i])}
        IN  /\ DOMAIN doc = {GrammarKey(lines[i]) : i \in matching}
            /\ \A key \in DOMAIN doc :
                  LET idx == LinesOfKey(lines, key)
                  IN  /\ Len(doc[key]) = Cardinality(idx)
                      /\ \A i \in idx :
                            doc[key][Cardinality({j \in idx : j <= i})]
                                = GrammarRecordSep(lines[i], seps)
            /\ (\A i \in 1..Len(lines) :
                    Len(lines[i]) = 0 \/ lines[i][1] # ":") => doc = EmptyDoc
            /\ \A i \in matching :
                  (\A j \in 1..Len(GrammarRest(lines[i])) :
                        GrammarRest(lines[i])[j] # ":")
                  => \E r \in 1..Len(doc[GrammarKey(lines[i])]) :
                        doc[GrammarKey(lines[i])][r]
                            = [name |-> GrammarRest(lines[i]), value |-> Empty]

RECURSIVE split_from(_, _, _, _)
split_from(s, c, i, cur) ==
    IF i > Len(s) THEN <<cur>>
    ELSE IF s[i] = c THEN <<cur>> \o split_from(s, c, i + 1, Empty)
    ELSE split_from(s, c, i + 1, Append(cur, s[i]))

split(s, c) == split_from(s, c, 1, Empty)

\* s.lstrip(chars) and s.rstrip(chars): every leading (trailing) character
\* of the set goes.
RECURSIVE lstrip(_, _)
lstrip(s, chars) ==
    IF Len(s) > 0 /\ Head(s) \in chars THEN lstrip(Tail(s), chars) ELSE s

RECURSIVE rstrip(_, _)
rstrip(s, chars) ==
    IF Len(s) > 0 /\ s[Len(s)] \in chars
    THEN rstrip(SubSeq(s, 1, Len(s) - 1), chars) ELSE s

\* s.strip(chars)
strip(s, chars) == rstrip(lstrip(s, chars), chars)

\* The third component of s.rpartition(c): the text after the last c, the
\* whole of s when it holds no c.  i scans from the end.
RECURSIVE rpartition_tail_from(_, _, _)
rpartition_tail_from(s, c, i) ==
    IF i = 0 THEN s
    ELSE IF s[i] = c THEN SubSeq(s, i + 1, Len(s))
    ELSE rpartition_tail_from(s, c, i - 1)

rpartition_tail(s, c) == rpartition_tail_from(s, c, Len(s))

\* A plausible slip: the one bracket at each end is sliced off, p[1:-1],
\* where the code strips every leading and trailing '<' and '>'.
fparam_slice(p) ==
    IF startswith(p, <<"<">>) /\ endswith(p, <<">">>)
    THEN <<"{">> \o rpartition_tail(SubSeq(p, 2, Len(p) - 1), ":") \o <<"}">>
    ELSE p

\* parameterize's inner function, applied to one segment.
fparam(p) ==
    IF startswith(p, <<"<">>) /\ endswith(p, <<">">>)
    THEN <<"{">> \o rpartition_tail(strip(p, {"<", ">"}), ":") \o <<"}">>
    ELSE p

\* map(fparam, segments)
map_fparam(segments) == [i \in 1..Len(segments) |-> fparam(segments[i])]

parameterize(s) == join(<<"/">>, map_fparam(split(s, "/")))

\* A plausible slip: s.lstrip(prefix), which strips characters, not a prefix.
lremove_lstrip(s, p) == lstrip(s, {p[i] : i \in 1..Len(p)})

\* s[len(prefix):] if s.startswith(prefix) else s
lremove(s, p) == IF startswith(s, p) THEN SubSeq(s, Len(p) + 1, Len(s)) ELSE s

\* APIEndpoint.__init__: the path of the endpoint of rule str(rule).
APIEndpoint_path(rule_str, pfx) ==
    LET p == IF endswith(pfx, <<"/">>) THEN SubSeq(pfx, 1, Len(pfx) - 1) ELSE pfx
    IN  parameterize(lremove(rule_str, p))

(***************************************************************************)
(* Inputs and calls of the path specification.                             *)
(***************************************************************************)
PathChars == {"/", "<", ">", ":", "a"}
TemplateChars == {"/", "<", ">", "a"}
PrefixChars == {"/", "a"}

\* Either any path, for parameterize alone, or a route template (which
\* starts with '/') together with a prefix.
InitPath ==
    /\ \/ /\ path \in SeqsUpTo(PathChars, MaxPathLen)
          /\ prefix = Empty
       \/ /\ path \in {<<"/">> \o t : t \in SeqsUpTo(TemplateChars, MaxTailLen)}
          /\ prefix \in SeqsUpTo(PrefixChars, MaxPrefixLen)
    /\ app = EmptyApp
    /\ lines = Empty
    /\ base_path = Empty
    /\ ret = NoCall

\* parameterize(path)
CallParameterize ==
    /\ ret' = [op |-> "parameterize", val |-> parameterize(path)]
    /\ UNCHANGED <<app, lines, path, prefix, base_path>>

\* lremove(path, prefix)
CallLremove ==
    /\ ret' = [op |-> "lremove", val |-> lremove(path, prefix)]
    /\ UNCHANGED <<app, lines, path, prefix, base_path>>

\* APIEndpoint(app, rule, prefix).path, with str(rule) = path
CallEndpointInit ==
    /\ ret' = [op |-> "APIEndpoint", val |-> APIEndpoint_path(path, prefix)]
    /\ UNCHANGED <<app, lines, path, prefix, base_path>>

NextPath == CallParameterize \/ CallLremove \/ CallEndpointInit

SpecPath == InitPath /\ [][NextPath]_vars

\* ---------------------------------------------------------------------------
\* Claim formulas of the path helpers.
\* ---------------------------------------------------------------------------
SlashPositions(s) == {i \in 1..Len(s) : s[i] = "/"}

NumSegments(s) == Cardinality(SlashPositions(s)) + 1

\* The position of the k-th slash of s; 0 for k = 0 and Len(s) + 1 past the
\* last one.
SlashAt(s, k) ==
    IF k = 0 THEN 0
    ELSE IF k > Cardinality(SlashPositions(s)) THEN Len(s) + 1
    ELSE CHOOSE i \in SlashPositions(s) :
            Cardinality({j \in SlashPositions(s) : j <= i}) = k

\* The k-th slash-delimited segment of s.
Segment(s, k) == SubSeq(s, SlashAt(s, k - 1) + 1, SlashAt(s, k) - 1)

IsParamSegment(seg) == Len(seg) >= 1 /\ seg[1] = "<" /\ seg[Len(seg)] = ">"

\* The text after the last ':' of s, s itself when it has none.
AfterLastColon(s) ==
    LET colons == {i \in 1..Len(s) : s[i] = ":"}
    IN  IF colons = {} THEN s
        ELSE SubSeq(s, (CHOOSE i \in colons : \A j \in colons : j <= i) + 1, Len(s))

\* What lies between the opening and the closing bracket of a segment.
InsideBrackets(seg) == SubSeq(seg, 2, Len(seg) - 1)

\* The segment without its leading and trailing '<' and '>' characters.
WithoutBrackets(seg) ==
    LET inner == {i \in 1..Len(seg) : seg[i] \notin {"<", ">"}}
    IN  IF inner = {} THEN Empty
        ELSE SubSeq(seg, CHOOSE i \in inner : \A j \in inner : i <= j,
                         CHOOSE i \in inner : \A j \in inner : j <= i)

\* C8 as stated: a bracketed segment becomes '{name}', name being the text
\* after the last ':' inside the brackets; the other segments, and the number
\* and order of segments, are unchanged; parameterize is idempotent.
C8_Original ==
    ret.op = "parameterize" =>
        /\ NumSegments(ret.val) = NumSegments(path)
        /\ \A k \in 1..NumSegments(path) :
              Segment(ret.val, k) =
                  IF IsParamSegment(Segment(path, k))
                  THEN <<"{">> \o AfterLastColon(InsideBrackets(Segment(path, k)))
                              \o <<"}">>
                  ELSE Segment(path, k)
        /\ parameterize(ret.val) = ret.val

\* C8 as amended: a segment that starts with '<' and ends with '>' becomes
\* '{name}', name being the text after the last ':' of the segment with all
\* its leading and trailing '<' and '>' characters removed; the other
\* segments, and the number and order of segments, are unchanged;
\* parameterize is idempotent.
C8_ParameterizeSegments ==
    ret.op = "parameterize" =>
        /\ NumSegments(ret.val) = NumSegments(path)
        /\ \A k \in 1..NumSegments(path) :
              Segment(ret.val, k) =
                  IF IsParamSegment(Segment(path, k))
                  THEN <<"{">> \o AfterLastColon(WithoutBrackets(Segment(path, k)))
                              \o <<"}">>
                  ELSE Segment(path, k)
        /\ parameterize(ret.val) = ret.val

\* parameterize has rewritten a typed parameter segment that follows a
\* literal one.
C8_Witness ==
    /\ ret.op = "parameterize"
    /\ path = <<"/", "<", "a", ":", "a", ">">>
    /\ ret.val = <<"/", "{", "a", "}">>

\* The remainders r with t = p \o r.
Remainders(t, p) == {r \in {SubSeq(t, i, Len(t)) : i \in 1..Len(t) + 1} : t = p \o r}

\* lremove(s, p) gives r with s = p \o r when s starts with p, and s
\* otherwise: one leading occurrence goes, later ones stay.
LremoveContract ==
    ret.op = "lremove" =>
        IF Remainders(path, prefix) # {}
        THEN prefix \o ret.val = path
        ELSE ret.val = path

\* C5 as stated: the endpoint's path is parameterize(t with p removed from
\* its front) when t starts with p and parameterize(t) otherwise; lremove
\* removes a single leading occurrence and leaves other strings unchanged.
C5_Original ==
    /\ ret.op = "APIEndpoint" =>
          IF Remainders(path, prefix) # {}
          THEN \A r \in Remainders(path, prefix) : ret.val = parameterize(r)
          ELSE ret.val = parameterize(path)
    /\ LremoveContract

\* The prefix without one trailing '/'.
TrimmedPrefix ==
    IF Len(prefix) > 0 /\ prefix[Len(prefix)] = "/"
    THEN SubSeq(prefix, 1, Len(prefix) - 1) ELSE prefix

\* C5 as amended: with q the prefix p less one trailing '/' (q = p when p
\* does not end with '/'), the endpoint's path is parameterize(t with q
\* removed from its front) when t starts with q and parameterize(t)
\* otherwise; lremove removes a single leading occurrence and leaves other
\* strings unchanged.
C5_EndpointPath ==
    /\ ret.op = "APIEndpoint" =>
          IF Remainders(path, TrimmedPrefix) # {}
          THEN \A r \in Remainders(path, TrimmedPrefix) : ret.val = parameterize(r)
          ELSE ret.val = parameterize(path)
    /\ LremoveContract

\* An endpoint whose prefix ends with '/' and whose template starts with
\* it and holds a parameter: the prefix less its '/' is removed and the
\* parameter rewritten.
C5_Witness ==
    /\ ret.op = "APIEndpoint"
    /\ prefix = <<"/", "a", "/">>
    /\ path = <<"/", "a", "/", "<", "a", ">">>
    /\ ret.val = <<"/", "{", "a", "}">>

(***************************************************************************)
(* APIEndpoint: parameters, status codes, summary, notes, operations.      *)
(***************************************************************************)
\* String literals of the code, as character sequences.
s_param == <<":", "p", "a", "r", "a", "m">>
s_paramtype == <<":", "p", "a", "r", "a", "m", "t", "y", "p", "e">>
s_type == <<":", "t", "y", "p", "e">>
s_default == <<":", "d", "e", "f", "a", "u", "l", "t">>
s_required == <<":", "r", "e", "q", "u", "i", "r", "e", "d">>
s_statuscode == <<":", "s", "t", "a", "t", "u", "s", "c", "o", "d", "e">>
s_notes == <<":", "n", "o", "t", "e", "s">>
s_path == <<"p", "a", "t", "h">>
s_query == <<"q", "u", "e", "r", "y">>
s_string == <<"s", "t", "r", "i", "n", "g">>

\* The methods _filter_methods keeps by default.
DefaultMethods == {"GET", "POST", "PUT", "DELETE"}

\* A plausible slip: every method of the rule is kept.
_filter_methods_all(rule) == rule.methods

\* APIEndpoint._filter_methods()
_filter_methods(rule) == rule.methods \cap DefaultMethods

\* The loop of _get_value over the directives ds from index i on.
RECURSIVE _get_value_from(_, _, _, _)
_get_value_from(ds, i, name, default) ==
    IF i > Len(ds) THEN default
    ELSE IF ds[i].name = name THEN ds[i].value
    ELSE _get_value_from(ds, i + 1, name, default)

\* A plausible slip: the name is not compared, the first directive of the
\* key decides.
_get_value_any(doc, key, name, default) ==
    IF Len(doc_get(doc, key)) > 0 THEN doc_get(doc, key)[1].value ELSE default

\* _make_parameters' _get_value(key, name, default)
_get_value(doc, key, name, default) ==
    _get_value_from(doc_get(doc, key), 1, name, default)

\* The names the generator `required` yields.
required_names(doc) ==
    {doc_get(doc, s_required)[i].name : i \in 1..Len(doc_get(doc, s_required))}

\* A plausible slip: only the :required directives decide `required`.
make_parameter_by_directive(doc, param_type, name, value) ==
    [paramType |-> _get_value(doc, s_paramtype, name, param_type),
     name |-> name,
     description |-> value,
     dataType |-> _get_value(doc, s_type, name, s_string),
     defaultValue |-> _get_value(doc, s_default, name, Empty),
     required |-> name \in required_names(doc)]

\* _make_parameters' make_parameter(param_type, name, value)
make_parameter(doc, param_type, name, value) ==
    [paramType |-> _get_value(doc, s_paramtype, name, param_type),
     name |-> name,
     description |-> value,
     dataType |-> _get_value(doc, s_type, name, s_string),
     defaultValue |-> _get_value(doc, s_default, name, Empty),
     required |-> (param_type = s_path \/ name \in required_names(doc))]

\* APIEndpoint._make_parameters(lines)
_make_parameters(rule, ls) ==
    LET doc == parse_doc(ls)
        params == doc_get(doc, s_param)
    IN  [i \in 1..Len(params) |->
            make_parameter(doc,
                           IF params[i].name \in rule.arguments
                           THEN s_path ELSE s_query,
                           params[i].name, params[i].value)]

\* APIEndpoint._make_status_codes(lines)
_make_status_codes(ls) ==
    LET codes == doc_get(parse_doc(ls), s_statuscode)
    IN  [i \in 1..Len(codes) |->
            [code |-> codes[i].name, message |-> codes[i].value]]

\* not line.startswith(':')
NotDirectiveLine(line) == ~startswith(line, <<":">>)

\* The characters str.strip() removes.
Whitespace == {" ", "\t", "\n", "\r"}

\* APIEndpoint._make_summary(lines)
_make_summary(ls) ==
    strip(join(<<"\n">>, SelectSeq(ls, NotDirectiveLine)), Whitespace)

\* param['name'] or param['value']
name_or_value(d) == IF d.name # Empty THEN d.name ELSE d.value

\* A plausible slip: the value is preferred to the name.
_make_notes_value_first(ls) ==
    LET ds == doc_get(parse_doc(ls), s_notes)
    IN  join(<<" ">>, [i \in 1..Len(ds) |->
                          IF ds[i].value # Empty THEN ds[i].value ELSE ds[i].name])

\* APIEndpoint._make_notes(lines)
_make_notes(ls) ==
    LET ds == doc_get(parse_doc(ls), s_notes)
    IN  join(<<" ">>, [i \in 1..Len(ds) |-> name_or_value(ds[i])])

\* (getdoc(view_function) or '').splitlines(): the documentation lines of
\* the rule's view function, none when it has no docstring.
view_lines(a, rule) ==
    IF rule.endpoint \in DOMAIN a.view_functions
    THEN a.view_functions[rule.endpoint] ELSE Empty

\* APIEndpoint._make_operation(method); the key 'notes' is set only when the
\* notes are not empty.
_make_operation(a, rule, method) ==
    LET ls == view_lines(a, rule)
        notes == _make_notes(ls)
        operation == [method |-> method,
                      nickname |-> rule.endpoint,
                      parameters |-> _make_parameters(rule, ls),
                      summary |-> _make_summary(ls),
                      responseMessages |-> _make_status_codes(ls)]
    IN  IF Len(notes) > 0 THEN operation @@ ("notes" :> notes) ELSE operation

\* The orders in which the set ms can be iterated.
Orders(ms) ==
    {o \in [1..Cardinality(ms) -> ms] : \A m \in ms : \E i \in DOMAIN o : o[i] = m}

\* APIEndpoint.make_operations(), the methods iterated in the order o.
make_operations(a, rule, o) == [i \in 1..Len(o) |-> _make_operation(a, rule, o[i])]

(***************************************************************************)
(* Inputs and calls of the endpoint specification.                         *)
(***************************************************************************)
\* 'key name: value' and 'key name'
Directive(key, name, value) == key \o <<" ">> \o name \o <<":", " ">> \o value
BareDirective(key, name) == key \o <<" ">> \o name

n_id == <<"i", "d">>
n_q == <<"q">>

\* Lines about parameters: two documented names (id, the route's
\* placeholder, and q), overrides of the parameter type, two types for one
\* name, a default for q and one for another name, :required lines for a
\* documented and for an undocumented name.
ParamLines ==
    {Directive(s_param, n_id, <<"d">>),
     Directive(s_param, n_q, <<"e">>),
     Directive(s_paramtype, n_id, s_query),
     Directive(s_paramtype, n_q, s_path),
     Directive(s_type, n_q, <<"i", "n", "t">>),
     Directive(s_type, n_q, <<"l", "o", "n", "g">>),
     Directive(s_default, n_q, <<"1">>),
     Directive(s_default, <<"q", "q">>, <<"1">>),
     BareDirective(s_required, n_q),
     BareDirective(s_required, <<"z">>)}

\* Lines about notes, status codes and the summary.
NotesLines ==
    {BareDirective(s_notes, <<"n">>),
     Directive(s_notes, <<"n">>, <<"v">>),
     Directive(s_notes, Empty, <<"v">>),
     BareDirective(s_notes, Empty),
     s_notes,
     Directive(s_statuscode, <<"2", "0", "0">>, <<"O", "K">>),
     <<" ", "G", "e", "t", " ">>}

\* A docstring with a summary, a parameter, a status code and a note.
SampleDoc ==
    <<<<"G", "e", "t">>,
      Directive(s_param, n_id, <<"d">>),
      Directive(s_statuscode, <<"2", "0", "0">>, <<"O", "K">>),
      BareDirective(s_notes, <<"n">>)>>

\* The methods a werkzeug rule may carry.
AllMethods == {"GET", "POST", "PUT", "DELETE", "HEAD", "OPTIONS"}

\* Rule('/a/<int:id>', endpoint='users') and Rule('/a/s', endpoint='search')
\* as flask registers them: str(rule), rule.methods, rule.arguments,
\* rule.endpoint.
UsersRule ==
    [rule |-> <<"/", "a", "/", "<", "i", "n", "t", ":", "i", "d", ">">>,
     methods |-> {"GET", "HEAD", "OPTIONS"},
     arguments |-> {n_id},
     endpoint |-> "users"]

SearchRule ==
    [rule |-> <<"/", "a", "/", "s">>,
     methods |-> {"GET", "POST", "OPTIONS"},
     arguments |-> {},
     endpoint |-> "search"]

\* An application with one route whose view function has the docstring ls.
OneRouteApp(rule, ls) ==
    [url_map |-> <<rule>>, view_functions |-> (rule.endpoint :> ls)]

InitEndpoint ==
    /\ \E rule \in {UsersRule, SearchRule} \cup
                   {[UsersRule EXCEPT !.methods = ms] : ms \in SUBSET AllMethods} :
          /\ \/ /\ rule \in {UsersRule, SearchRule}
                /\ lines \in SeqsUpTo(ParamLines, MaxParamLines)
             \/ /\ rule = SearchRule
                /\ lines \in SeqsUpTo(NotesLines, MaxNotesLines)
             \/ lines \in {Empty, SampleDoc}
          /\ app = OneRouteApp(rule, lines)
    /\ prefix = <<"/", "a">>
    /\ path = Empty
    /\ base_path = Empty
    /\ ret = NoCall

\* The rule of the endpoint under test.
TheRule == app.url_map[1]

\* endpoint._make_parameters(lines)
CallMakeParameters ==
    /\ ret' = [op |-> "_make_parameters", val |-> _make_parameters(TheRule, lines)]
    /\ UNCHANGED <<app, lines, path, prefix, base_path>>

\* endpoint._make_status_codes(lines)
CallMakeStatusCodes ==
    /\ ret' = [op |-> "_make_status_codes", val |-> _make_status_codes(lines)]
    /\ UNCHANGED <<app, lines, path, prefix, base_path>>

\* endpoint._make_summary(lines)
CallMakeSummary ==
    /\ ret' = [op |-> "_make_summary", val |-> _make_summary(lines)]
    /\ UNCHANGED <<app, lines, path, prefix, base_path>>

\* endpoint._make_notes(lines)
CallMakeNotes ==
    /\ ret' = [op |-> "_make_notes", val |-> _make_notes(lines)]
    /\ UNCHANGED <<app, lines, path, prefix, base_path>>

\* endpoint.make_operations(); the iteration order of the method set is not
\* specified, so any order may come out.
CallMakeOperations ==
    /\ \E o \in Orders(_filter_methods(TheRule)) :
          ret' = [op |-> "make_operations", val |-> make_operations(app, TheRule, o)]
    /\ UNCHANGED <<app, lines, path, prefix, base_path>>

NextEndpoint ==
    \/ CallMakeParameters
    \/ CallMakeStatusCodes
    \/ CallMakeSummary
    \/ CallMakeNotes
    \/ CallMakeOperations

SpecEndpoint == InitEndpoint /\ [][NextEndpoint]_vars

\* ---------------------------------------------------------------------------
\* Claim formulas of the endpoint.
\* ---------------------------------------------------------------------------
\* The indices of the lines of ls that are directives of the key.
DirectiveIdx(ls, key) == LinesOfKey(ls, key)

\* Those of them whose name is n.
NamedIdx(ls, key, n) ==
    {i \in DirectiveIdx(ls, key) : GrammarRecord(ls[i]).name = n}

Least(S) == CHOOSE i \in S : \A j \in S : i <= j

\* The k-th smallest element of S.
NthOf(S, k) == CHOOSE i \in S : Cardinality({j \in S : j <= i}) = k

\* The value of the first directive of the key named n, the default when
\* there is none.
DirectiveValue(ls, key, n, default) ==
    IF NamedIdx(ls, key, n) = {} THEN default
    ELSE GrammarRecord(ls[Least(NamedIdx(ls, key, n))]).value

\* C3: the parameters are the :param directives in order; for the one named
\* n, paramType is the value of the (first) :paramtype directive named n if
\* any, else 'path' when n is a path-parameter name of the route and 'query'
\* otherwise; dataType is the value of the (first) :type directive named n,
\* else 'string'; defaultValue that of the (first) :default directive named
\* n, else ''; description is the :param directive's value.
C3_ParameterFields ==
    ret.op = "_make_parameters" =>
        LET P == DirectiveIdx(lines, s_param)
        IN  /\ Len(ret.val) = Cardinality(P)
            /\ \A k \in 1..Len(ret.val) :
                  LET d == GrammarRecord(lines[NthOf(P, k)])
                      n == d.name
                      p == ret.val[k]
                  IN  /\ p.name = n
                      /\ p.description = d.value
                      /\ p.paramType =
                            DirectiveValue(lines, s_paramtype, n,
                                IF n \in TheRule.arguments
                                THEN <<"p", "a", "t", "h">>
                                ELSE <<"q", "u", "e", "r", "y">>)
                      /\ p.dataType =
                            DirectiveValue(lines, s_type, n,
                                <<"s", "t", "r", "i", "n", "g">>)
                      /\ p.defaultValue = DirectiveValue(lines, s_default, n, <<>>)

\* A parameter q with a :type directive and a :default directive of another
\* name: the type is taken, the default is ''.
C3_Witness ==
    /\ ret.op = "_make_parameters"
    /\ lines = <<Directive(s_param, n_q, <<"e">>),
                 Directive(s_type, n_q, <<"i", "n", "t">>),
                 Directive(s_default, <<"q", "q">>, <<"1">>)>>
    /\ Len(ret.val) = 1
    /\ ret.val[1].dataType = <<"i", "n", "t">>
    /\ ret.val[1].defaultValue = <<>>
    /\ ret.val[1].paramType = <<"q", "u", "e", "r", "y">>

\* A :required directive that names no documented parameter.
OrphanRequired(line) ==
    /\ GrammarMatches(line)
    /\ GrammarKey(line) = s_required
    /\ NamedIdx(lines, s_param, GrammarRecord(line).name) = {}

NotOrphanRequired(line) == ~OrphanRequired(line)

\* C2: a Parameter's `required` is true iff its emitted paramType is 'path'
\* or its name is that of a :required directive; a :required directive that
\* names no documented parameter changes nothing.
C2_Original ==
    ret.op = "_make_parameters" =>
        /\ \A k \in 1..Len(ret.val) :
              ret.val[k].required <=>
                  \/ ret.val[k].paramType = <<"p", "a", "t", "h">>
                  \/ NamedIdx(lines, s_required, ret.val[k].name) # {}
        /\ ret.val = _make_parameters(TheRule, SelectSeq(lines, NotOrphanRequired))

\* The documentation lines of the endpoint's view function.
DocLines == app.view_functions[TheRule.endpoint]

C7_OperationsPerMethod ==
    ret.op = "make_operations" =>
        LET ops == ret.val
            kept == {m \in TheRule.methods : m \in {"GET", "POST", "PUT", "DELETE"}}
        IN  /\ {ops[i].method : i \in 1..Len(ops)} = kept
            /\ Len(ops) = Cardinality(kept)
            /\ \A i, j \in 1..Len(ops) :
                  /\ DOMAIN ops[i] = DOMAIN ops[j]
                  /\ \A f \in DOMAIN ops[i] : f # "method" => ops[i][f] = ops[j][f]
            /\ \A i \in 1..Len(ops) : ops[i].nickname = TheRule.endpoint

\* A route with GET, POST, HEAD and OPTIONS and a docstring: two Operations
\* with the parameter, the status code and the notes.
C7_Witness ==
    /\ ret.op = "make_operations"
    /\ TheRule.methods = {"GET", "POST", "HEAD", "OPTIONS"}
    /\ DocLines = SampleDoc
    /\ Len(ret.val) = 2
    /\ ret.val[1].method # ret.val[2].method
    /\ Len(ret.val[1].parameters) = 1
    /\ Len(ret.val[2].responseMessages) = 1
    /\ "notes" \in DOMAIN ret.val[2]

\* The text a :notes directive contributes: its name, its value when the
\* name is empty.
NotePiece(line) ==
    IF GrammarRecord(line).name # <<>> THEN GrammarRecord(line).name
    ELSE GrammarRecord(line).value

\* The summed lengths of the pieces of the lines of ls with index in S, one
\* more for each (the separator).
RECURSIVE PiecesLen(_, _)
PiecesLen(ls, S) ==
    IF S = {} THEN 0
    ELSE LET i == Least(S)
         IN  Len(NotePiece(ls[i])) + 1 + PiecesLen(ls, S \ {i})

\* C9: with the pieces of the :notes directives in line order, an Operation
\* has the key `notes` iff their space-joined concatenation is not empty,
\* and then `notes` is that concatenation: each piece at its place, a space
\* between two pieces; without a :notes directive the key is absent.
C9_Notes ==
    ret.op = "make_operations" =>
        LET N == DirectiveIdx(DocLines, s_notes)
            total == IF N = {} THEN 0 ELSE PiecesLen(DocLines, N) - 1
        IN  \A j \in 1..Len(ret.val) :
              /\ "notes" \in DOMAIN ret.val[j] <=> total > 0
              /\ N = {} => "notes" \notin DOMAIN ret.val[j]
              /\ "notes" \in DOMAIN ret.val[j] =>
                    LET notes == ret.val[j].notes
                    IN  /\ Len(notes) = total
                        /\ \A i \in N :
                              LET off == PiecesLen(DocLines, {h \in N : h < i})
                                  piece == NotePiece(DocLines[i])
                              IN  /\ SubSeq(notes, off + 1, off + Len(piece)) = piece
                                  /\ off + Len(piece) < total
                                        => notes[off + Len(piece) + 1] = " "

\* Notes from a directive with a name and a value and from one with a value
\* only: the name of the first and the value of the second.
C9_Witness ==
    /\ ret.op = "make_operations"
    /\ DocLines = <<Directive(s_notes, <<"n">>, <<"v">>),
                    Directive(s_notes, <<>>, <<"v">>)>>
    /\ Len(ret.val) >= 1
    /\ "notes" \in DOMAIN ret.val[1]
    /\ ret.val[1].notes = <<"n", " ", "v">>

(***************************************************************************)
(* APIBuilder and make_resources.                                          *)
(***************************************************************************)
\* A plausible slip: the endpoints are collected in reverse.
RECURSIVE _find_endpoints_reversed(_, _)
_find_endpoints_reversed(a, pfx) ==
    IF Len(a.url_map) = 0 THEN <<>>
    ELSE LET rule == a.url_map[1]
             rest == [a EXCEPT !.url_map = Tail(a.url_map)]
         IN  _find_endpoints_reversed(rest, pfx) \o
             (IF startswith(rule.rule, pfx)
              THEN <<[rule |-> rule, path |-> APIEndpoint_path(rule.rule, pfx)]>>
              ELSE <<>>)

\* APIBuilder._find_endpoints(): an APIEndpoint (its rule and its path) for
\* every rule, in the order of app.url_map.iter_rules(), whose string starts
\* with the prefix.
RECURSIVE _find_endpoints(_, _)
_find_endpoints(a, pfx) ==
    IF Len(a.url_map) = 0 THEN <<>>
    ELSE LET rule == a.url_map[1]
             rest == [a EXCEPT !.url_map = Tail(a.url_map)]
         IN  (IF startswith(rule.rule, pfx)
              THEN <<[rule |-> rule, path |-> APIEndpoint_path(rule.rule, pfx)]>>
              ELSE <<>>)
             \o _find_endpoints(rest, pfx)

\* The choices of an iteration order of the kept methods for each endpoint.
EndpointOrders(endpoints) ==
    {os \in [1..Len(endpoints) ->
                UNION {Orders(_filter_methods(endpoints[i].rule)) :
                          i \in 1..Len(endpoints)}] :
        \A i \in 1..Len(endpoints) :
            os[i] \in Orders(_filter_methods(endpoints[i].rule))}

\* APIBuilder.make_apis(description), the i-th endpoint iterating its
\* methods in the order os[i].
make_apis(a, pfx, description, os) ==
    LET endpoints == _find_endpoints(a, pfx)
    IN  [i \in 1..Len(endpoints) |->
            [path |-> endpoints[i].path,
             description |-> description,
             operations |-> make_operations(a, endpoints[i].rule, os[i])]]

\* urlparse(base_path).path; a base path is held as what precedes its path
\* (scheme and host) and its path.
urlparse_path(bp) == bp.path

\* resource_path or urlparse(base_path).path: None and '' are both falsy.
resolve_resource_path(bp, resource_path) ==
    IF resource_path # Empty THEN resource_path ELSE urlparse_path(bp)

\* make_resources(app, base_path, resource_path, description)
make_resources(a, bp, resource_path, description, os) ==
    [apiVersion |-> "1",
     swaggerVersion |-> "1.2",
     basePath |-> bp,
     resourcePath |-> resolve_resource_path(bp, resource_path),
     apis |-> make_apis(a, resolve_resource_path(bp, resource_path),
                        description, os)]

(***************************************************************************)
(* Inputs and calls of the builder specification.                          *)
(***************************************************************************)
\* The routes an application may register.
BuilderRules ==
    {[rule |-> <<"/", "a", "/", "u", "/", "<", "i", "d", ">">>,
      methods |-> {"GET", "HEAD", "OPTIONS"},
      arguments |-> {n_id}, endpoint |-> "user"],
     [rule |-> <<"/", "a", "/", "u">>,
      methods |-> {"GET", "POST", "HEAD", "OPTIONS"},
      arguments |-> {}, endpoint |-> "users"],
     [rule |-> <<"/", "a">>,
      methods |-> {"OPTIONS"},
      arguments |-> {}, endpoint |-> "root"],
     [rule |-> <<"/", "a", "x">>,
      methods |-> {"PUT", "OPTIONS"},
      arguments |-> {}, endpoint |-> "ax"],
     [rule |-> <<"/", "o">>,
      methods |-> {"DELETE", "OPTIONS"},
      arguments |-> {}, endpoint |-> "other"]}

\* The docstrings of the view functions; `other` has none.
BuilderViews ==
    [e \in {"user", "users", "root", "ax"} |->
        IF e = "user" THEN SampleDoc
        ELSE IF e = "users" THEN <<<<"L", "i", "s", "t">>>>
        ELSE <<>>]

\* The prefixes (resource paths) asked for; '' stands for none given.
BuilderPrefixes ==
    {<<>>, <<"/">>, <<"/", "a">>, <<"/", "a", "/">>, <<"/", "a", "/", "u">>}

\* The base paths given to make_resources.
BasePaths ==
    {[origin |-> "http://foo.bar", path |-> <<"/", "a">>],
     [origin |-> "http://foo.bar", path |-> <<"/", "a", "/">>],
     [origin |-> "http://foo.bar", path |-> <<>>]}

\* The base path of the calls that name their resource path.
DefaultBasePath == [origin |-> "http://foo.bar", path |-> <<"/", "a">>]

\* description=None or a text.
Descriptions == {"None", "Users"}

InitBuilder ==
    /\ \E rules \in SeqsUpTo(BuilderRules, MaxRoutes) :
          app = [url_map |-> rules, view_functions |-> BuilderViews]
    /\ \/ prefix \in BuilderPrefixes /\ base_path = DefaultBasePath
       \/ prefix = Empty /\ base_path \in BasePaths
    /\ lines = Empty
    /\ path = Empty
    /\ ret = NoCall

\* APIBuilder(app, prefix)._find_endpoints()
CallFindEndpoints ==
    /\ ret' = [op |-> "_find_endpoints", val |-> _find_endpoints(app, prefix)]
    /\ UNCHANGED <<app, lines, path, prefix, base_path>>

\* APIBuilder(app, prefix).make_apis(description)
CallMakeApis ==
    /\ \E d \in Descriptions : \E os \in EndpointOrders(_find_endpoints(app, prefix)) :
          ret' = [op |-> "make_apis", val |-> make_apis(app, prefix, d, os)]
    /\ UNCHANGED <<app, lines, path, prefix, base_path>>

\* make_resources(app, base_path, resource_path=prefix, description)
CallMakeResources ==
    /\ \E d \in Descriptions :
       \E os \in EndpointOrders(
                    _find_endpoints(app, resolve_resource_path(base_path, prefix))) :
          ret' = [op |-> "make_resources",
                  val |-> make_resources(app, base_path, prefix, d, os)]
    /\ UNCHANGED <<app, lines, path, prefix, base_path>>

NextBuilder == CallFindEndpoints \/ CallMakeApis \/ CallMakeResources

SpecBuilder == InitBuilder /\ [][NextBuilder]_vars

\* ---------------------------------------------------------------------------
\* Claim formulas of the builder.
\* ---------------------------------------------------------------------------
\* The `apis` list a call has returned and the prefix it was built for.
ReturnedApis == IF ret.op = "make_apis" THEN ret.val ELSE ret.val.apis

UsedPrefix ==
    IF ret.op = "make_apis" \/ prefix # <<>> THEN prefix ELSE base_path.path

\* The positions in the route enumeration of the routes whose template
\* starts with the prefix.
SelectedRoutes(pfx) ==
    {i \in 1..Len(app.url_map) : Remainders(app.url_map[i].rule, pfx) # {}}

\* C6: `apis` holds one entry for each route whose template starts with the
\* prefix and none for another route, in the order in which the routes are
\* enumerated.
C6_ApisFollowRoutes ==
    ret.op \in {"make_apis", "make_resources"} =>
        LET sel == SelectedRoutes(UsedPrefix)
            apis == ReturnedApis
        IN  /\ Len(apis) = Cardinality(sel)
            /\ \A k \in 1..Len(apis) :
                  LET route == app.url_map[NthOf(sel, k)]
                  IN  /\ apis[k].path = APIEndpoint_path(route.rule, UsedPrefix)
                      /\ \A j \in 1..Len(apis[k].operations) :
                            /\ apis[k].operations[j].nickname = route.endpoint
                            /\ apis[k].operations[j].method \in route.methods

\* Three routes, the middle one outside the prefix: two entries, in the
\* order of the routes.
C6_Witness ==
    /\ ret.op = "make_resources"
    /\ Len(app.url_map) = 3
    /\ app.url_map[1].endpoint = "users"
    /\ app.url_map[2].endpoint = "other"
    /\ app.url_map[3].endpoint = "user"
    /\ ret.val.resourcePath = <<"/", "a">>
    /\ Len(ret.val.apis) = 2
    /\ ret.val.apis[1].path = <<"/", "u">>
    /\ ret.val.apis[2].path = <<"/", "u", "/", "{", "i", "d", "}">>

\* C10: the path of every endpoint found, and of every entry of `apis`,
\* starts with '/'.
C10_Original ==
    /\ ret.op = "_find_endpoints" =>
          \A k \in 1..Len(ret.val) :
              Len(ret.val[k].path) > 0 /\ ret.val[k].path[1] = "/"
    /\ ret.op \in {"make_apis", "make_resources"} =>
          \A k \in 1..Len(ReturnedApis) :
              Len(ReturnedApis[k].path) > 0 /\ ReturnedApis[k].path[1] = "/"

====
